---- MODULE Spec2Model ----
(***************************************************************************)
(* Identity and access subsystem of lam-phuong-api: the user repository    *)
(* (in-memory map, Airtable-backed repository with an in-memory mirror,    *)
(* Airtable-only repository) and the HTTP handlers built on it.            *)
(***************************************************************************)
EXTENDS Integers, Sequences, FiniteSets, TLC

\* ------------------------------------------------------------------ bounds
\* At most MaxAccounts ids are ever handed out by one layer of the store.
MaxAccounts == 2
\* Clock readings and token expiry times range over 0..MaxTime.
MaxTime == 2

\* ------------------------------------------------------------ value domains
\* strconv.Itoa(n) for the ids the in-memory map hands out.
NumIDs == <<"1", "2", "3", "4", "5", "6">>
\* Record ids the Airtable service hands out; never a decimal string.
RecIDs == <<"recA", "recB", "recC", "recD", "recE", "recF">>
\* Every id in lexicographic order (digits sort before letters).
AllIDs == NumIDs \o RecIDs

Itoa(n) == NumIDs[n]

\* Emails a request may carry; two differ only in letter case.
Emails == {"a@x.com", "A@x.com", "b@x.com"}
\* Verification tokens (hex strings of crypto/rand bytes).
Tokens == {"t1", "t2"}

RoleUser == "User"
RoleAdmin == "Admin"
RoleSuperAdmin == "Super Admin"
ValidRoles == <<RoleSuperAdmin, RoleAdmin, RoleUser>>
StatusPending == "pending"
StatusActive == "active"

FieldEmail == "Email"
FieldPassword == "Password"
FieldRole == "Role"
FieldStatus == "Status"
FieldEmailVerificationToken == "Email Verification Token"

\* strings.ToLower on the strings of the model.
ToLower(s) == IF s = "A@x.com" THEN "a@x.com" ELSE s
\* strings.TrimSpace on the strings of the model.
TrimSpace(s) == CASE s = " a@x.com" -> "a@x.com"
                  [] s = " " -> ""
                  [] OTHER -> s

\* The zero value User{}.
NoUser == [ID |-> "", Email |-> "", Password |-> "", Role |-> "",
           Status |-> "", EmailVerificationToken |-> ""]

Range(f) == {f[x] : x \in DOMAIN f}
Without(f, k) == [x \in DOMAIN f \ {k} |-> f[x]]

\* ------------------------------------------------------------------- state
VARIABLES
    impl,      \* the Repository the handlers hold: "mem", "mirror" or "remote"
    data,      \* InMemoryRepository.data: id -> User
    nextID,    \* InMemoryRepository.nextID
    remote,    \* the Airtable table: record id -> fields
    nextRec,   \* number of record ids the Airtable service has handed out, plus one
    resp,      \* the response of the last completed call
    pc,        \* per worker: its position inside RegisterHandler
    loc,       \* per worker: the locals of its RegisterHandler call
    ctx,       \* the request passing the authorization middleware chain
    clock,     \* the time
    bearer,    \* the bearer token a client was issued and holds
    mu,        \* InMemoryRepository.mu
    call       \* the AirtableRepository call in progress

vars == <<impl, data, nextID, remote, nextRec, resp, pc, loc, ctx, clock, bearer, mu, call>>

\* The two layers of the store as one value.
Store == [data |-> data, nextID |-> nextID, remote |-> remote, nextRec |-> nextRec]

\* -------------------------------------------------- InMemoryRepository
\* A Create that forgets to advance nextID: the next user takes the same id.
Create_KeepsNextID(s, user) ==
    IF \E id \in DOMAIN s.data : s.data[id].Email = user.Email
    THEN [err |-> "already exists", user |-> NoUser, s |-> s]
    ELSE LET u == [user EXCEPT !.ID = Itoa(s.nextID)]
         IN [err |-> "", user |-> u,
             s |-> [s EXCEPT !.data = (u.ID :> u) @@ s.data]]

\* Create: duplicate check by exact string comparison, then id assignment.
InMemoryRepository_Create(s, user) ==
    IF \E id \in DOMAIN s.data : s.data[id].Email = user.Email
    THEN [err |-> "already exists", user |-> NoUser, s |-> s]
    ELSE LET u == [user EXCEPT !.ID = Itoa(s.nextID)]
         IN [err |-> "", user |-> u,
             s |-> [s EXCEPT !.data = (u.ID :> u) @@ s.data,
                             !.nextID = s.nextID + 1]]

InMemoryRepository_Delete(s, id) ==
    IF id \notin DOMAIN s.data
    THEN [ok |-> FALSE, s |-> s]
    ELSE [ok |-> TRUE, s |-> [s EXCEPT !.data = Without(s.data, id)]]

InMemoryRepository_Get(s, id) ==
    IF id \in DOMAIN s.data
    THEN [user |-> s.data[id], ok |-> TRUE]
    ELSE [user |-> NoUser, ok |-> FALSE]

\* The possible results of the map iteration: any user with that exact email.
InMemoryRepository_GetByEmail(s, email) ==
    LET hit == {id \in DOMAIN s.data : s.data[id].Email = email}
    IN IF hit = {} THEN {[user |-> NoUser, ok |-> FALSE]}
       ELSE {[user |-> s.data[id], ok |-> TRUE] : id \in hit}

InMemoryRepository_GetByVerificationToken(s, token) ==
    LET hit == {id \in DOMAIN s.data : s.data[id].EmailVerificationToken = token}
    IN IF hit = {} THEN {[user |-> NoUser, ok |-> FALSE]}
       ELSE {[user |-> s.data[id], ok |-> TRUE] : id \in hit}

\* Update: id and email are kept, an empty password or role is kept, the
\* other fields of the stored record are replaced by the caller's.
InMemoryRepository_Update(s, id, updatedUser) ==
    IF id \notin DOMAIN s.data
    THEN [err |-> "not found", user |-> NoUser, s |-> s]
    ELSE LET existingUser == s.data[id]
             u == [updatedUser EXCEPT
                     !.ID = id,
                     !.Email = existingUser.Email,
                     !.Password = IF updatedUser.Password = ""
                                  THEN existingUser.Password ELSE @,
                     !.Role = IF updatedUser.Role = ""
                              THEN existingUser.Role ELSE @]
         IN [err |-> "", user |-> u, s |-> [s EXCEPT !.data[id] = u]]

\* List: every user, sorted by id.
InMemoryRepository_List(s) ==
    LET ids == SelectSeq(AllIDs, LAMBDA i : i \in DOMAIN s.data)
    IN [k \in 1..Len(ids) |-> s.data[ids[k]]]

\* ------------------------------------------------------ airtable.Client
\* Every call carries `up`: whether the Airtable service answers it.
\* The timestamps the code writes (Created At, Updated At) are left out: no
\* operation reads them back.
getStringField(fields, key) == IF key \in DOMAIN fields THEN fields[key] ELSE ""

\* ListRecords without parameters: every record, in the service's order.
Client_ListRecords(s, up) ==
    IF ~up THEN [err |-> TRUE, records |-> <<>>]
    ELSE LET ids == SelectSeq(AllIDs, LAMBDA i : i \in DOMAIN s.remote)
         IN [err |-> FALSE,
             records |-> [k \in 1..Len(ids) |->
                            [ID |-> ids[k], Fields |-> s.remote[ids[k]]]]]

\* ListRecords with FilterByFormula LOWER({Email}) = '<lower email>': the ids
\* of the matching records; with PageSize 1 the service returns one of them.
Client_ListByEmail(s, up, lowered) ==
    IF ~up THEN [err |-> TRUE, ids |-> {}]
    ELSE [err |-> FALSE,
          ids |-> {i \in DOMAIN s.remote :
                     ToLower(getStringField(s.remote[i], FieldEmail)) = lowered}]

\* ListRecords with FilterByFormula {Email Verification Token} = '<token>'.
Client_ListByToken(s, up, token) ==
    IF ~up THEN [err |-> TRUE, ids |-> {}]
    ELSE [err |-> FALSE,
          ids |-> {i \in DOMAIN s.remote :
                     getStringField(s.remote[i], FieldEmailVerificationToken) = token}]

\* GetRecord: an unknown id is an error like any other.
Client_GetRecord(s, up, id) ==
    IF up /\ id \in DOMAIN s.remote
    THEN [err |-> FALSE, record |-> [ID |-> id, Fields |-> s.remote[id]]]
    ELSE [err |-> TRUE, record |-> [ID |-> "", Fields |-> <<>>]]

\* CreateRecord: the service assigns the record id.
Client_CreateRecord(s, up, fields) ==
    IF ~up THEN [err |-> TRUE, ID |-> "", s |-> s]
    ELSE [err |-> FALSE, ID |-> RecIDs[s.nextRec],
          s |-> [s EXCEPT !.remote = (RecIDs[s.nextRec] :> fields) @@ s.remote,
                          !.nextRec = s.nextRec + 1]]

\* UpdateRecordPartial: fetch the record, then overwrite the given fields.
Client_UpdateRecordPartial(s, up, id, fields) ==
    IF up /\ id \in DOMAIN s.remote
    THEN [err |-> FALSE, s |-> [s EXCEPT !.remote[id] = fields @@ s.remote[id]]]
    ELSE [err |-> TRUE, s |-> s]

\* DeleteRecord: fetch the record, then delete it.
Client_DeleteRecord(s, up, id) ==
    IF up /\ id \in DOMAIN s.remote
    THEN [err |-> FALSE, s |-> [s EXCEPT !.remote = Without(s.remote, id)]]
    ELSE [err |-> TRUE, s |-> s]

\* ------------------------------------------------- User <-> Airtable fields
ToAirtableFieldsForCreate(u) ==
    LET keys == {FieldEmail, FieldPassword, FieldStatus}
                  \cup (IF u.Role # "" THEN {FieldRole} ELSE {})
    IN [k \in keys |->
          CASE k = FieldEmail -> u.Email
            [] k = FieldPassword -> u.Password
            [] k = FieldRole -> u.Role
            [] k = FieldStatus -> IF u.Status # "" THEN u.Status ELSE StatusActive]

ToAirtableFieldsForUpdate(u) ==
    LET keys == {FieldEmail}
                  \cup (IF u.Password # "" THEN {FieldPassword} ELSE {})
                  \cup (IF u.Role # "" THEN {FieldRole} ELSE {})
                  \cup (IF u.Status # "" THEN {FieldStatus} ELSE {})
    IN [k \in keys |->
          CASE k = FieldEmail -> u.Email
            [] k = FieldPassword -> u.Password
            [] k = FieldRole -> u.Role
            [] k = FieldStatus -> u.Status]

\* mapAirtableRecord of the mirrored repository: status defaults to pending.
mapAirtableRecord(record) ==
    [ID |-> record.ID,
     Email |-> getStringField(record.Fields, FieldEmail),
     Password |-> getStringField(record.Fields, FieldPassword),
     Role |-> IF getStringField(record.Fields, FieldRole) = ""
              THEN RoleUser ELSE getStringField(record.Fields, FieldRole),
     Status |-> IF getStringField(record.Fields, FieldStatus) = ""
                THEN StatusPending ELSE getStringField(record.Fields, FieldStatus),
     EmailVerificationToken |->
         getStringField(record.Fields, FieldEmailVerificationToken)]

\* mapAirtableRecord of the Airtable-only repository: status defaults to
\* active, and the verification token is not read.
Remote_mapAirtableRecord(record) ==
    [ID |-> record.ID,
     Email |-> getStringField(record.Fields, FieldEmail),
     Password |-> getStringField(record.Fields, FieldPassword),
     Role |-> IF getStringField(record.Fields, FieldRole) = ""
              THEN RoleUser ELSE getStringField(record.Fields, FieldRole),
     Status |-> IF getStringField(record.Fields, FieldStatus) = ""
                THEN StatusActive ELSE getStringField(record.Fields, FieldStatus),
     EmailVerificationToken |-> ""]

\* A read's result: `from` names the layer that produced it ("mem" for the
\* plain in-memory repository, "remote", "mirror", or "none" when the call
\* answered without consulting a layer); `failed` tells that the remote read
\* of the call returned an error.
Found(u, from, failed) == [user |-> u, ok |-> TRUE, from |-> from, failed |-> failed]
Absent(from, failed) == [user |-> NoUser, ok |-> FALSE, from |-> from, failed |-> failed]
Tag(r, from, failed) == [user |-> r.user, ok |-> r.ok, from |-> from, failed |-> failed]

\* ----------------------- AirtableRepository over a mirror (Repository wrapper)
AirtableRepository_List(s, up) ==
    LET l == Client_ListRecords(s, up)
        users == [k \in 1..Len(l.records) |-> mapAirtableRecord(l.records[k])]
    IN IF l.err
       THEN [users |-> InMemoryRepository_List(s), from |-> "mirror", failed |-> TRUE]
       ELSE IF Len(users) = 0
            THEN [users |-> InMemoryRepository_List(s), from |-> "mirror", failed |-> FALSE]
            ELSE [users |-> users, from |-> "remote", failed |-> FALSE]

\* A Create that reports the failed remote write as its own failure.
CreateSync_FailsWithRemote(s, created, up) ==
    LET w == Client_CreateRecord(s, up, ToAirtableFieldsForCreate(created))
    IN IF w.err THEN [err |-> "failed to create user in Airtable",
                      user |-> NoUser, s |-> s]
       ELSE [err |-> "", user |-> [created EXCEPT !.ID = w.ID], s |-> w.s]

\* Create, second half: the remote write of the user the mirror created; the
\* record id of a successful write replaces the id in the returned user only.
AirtableRepository_CreateSync(s, created, up) ==
    LET w == Client_CreateRecord(s, up, ToAirtableFieldsForCreate(created))
    IN IF w.err THEN [err |-> "", user |-> created, s |-> s]
       ELSE [err |-> "", user |-> [created EXCEPT !.ID = w.ID], s |-> w.s]

\* Create: the mirror first, then the remote write.
AirtableRepository_Create(s, user, up) ==
    LET c == InMemoryRepository_Create(s, user)
    IN IF c.err # "" THEN [err |-> c.err, user |-> NoUser, s |-> s]
       ELSE AirtableRepository_CreateSync(c.s, c.user, up)

AirtableRepository_Delete(s, id, up) ==
    LET d == InMemoryRepository_Delete(s, id)
    IN IF ~d.ok THEN [ok |-> FALSE, s |-> s]
       ELSE [ok |-> TRUE, s |-> Client_DeleteRecord(d.s, up, id).s]

AirtableRepository_Get(s, id, up) ==
    LET g == Client_GetRecord(s, up, id)
    IN IF g.err THEN Tag(InMemoryRepository_Get(s, id), "mirror", TRUE)
       ELSE Found(mapAirtableRecord(g.record), "remote", FALSE)

\* A GetByEmail that asks the mirror first and Airtable only for an email the
\* mirror lacks.
GetByEmail_MirrorFirst(s, email, up) ==
    LET e == TrimSpace(email)
        q == Client_ListByEmail(s, up, ToLower(e))
        m == InMemoryRepository_GetByEmail(s, e)
    IN IF e = "" THEN {Absent("none", FALSE)}
       ELSE IF \E r \in m : r.ok
            THEN {Tag(r, "mirror", FALSE) : r \in m}
       ELSE IF q.err THEN {Absent("mirror", TRUE)}
       ELSE IF q.ids # {}
            THEN {Found(mapAirtableRecord([ID |-> i, Fields |-> s.remote[i]]),
                        "remote", FALSE) : i \in q.ids}
       ELSE {Absent("mirror", FALSE)}

AirtableRepository_GetByEmail(s, email, up) ==
    LET e == TrimSpace(email)
        q == Client_ListByEmail(s, up, ToLower(e))
    IN IF e = "" THEN {Absent("none", FALSE)}
       ELSE IF q.err
            THEN {Tag(r, "mirror", TRUE) : r \in InMemoryRepository_GetByEmail(s, e)}
       ELSE IF q.ids # {}
            THEN {Found(mapAirtableRecord([ID |-> i, Fields |-> s.remote[i]]),
                        "remote", FALSE) : i \in q.ids}
       ELSE {Tag(r, "mirror", FALSE) : r \in InMemoryRepository_GetByEmail(s, e)}

AirtableRepository_GetByVerificationToken(s, token, up) ==
    LET tk == TrimSpace(token)
        q == Client_ListByToken(s, up, tk)
    IN IF tk = "" THEN {Absent("none", FALSE)}
       ELSE IF q.err
            THEN {Tag(r, "mirror", TRUE) :
                     r \in InMemoryRepository_GetByVerificationToken(s, tk)}
       ELSE IF q.ids # {}
            THEN {Found(mapAirtableRecord([ID |-> i, Fields |-> s.remote[i]]),
                        "remote", FALSE) : i \in q.ids}
       ELSE {Tag(r, "mirror", FALSE) :
                r \in InMemoryRepository_GetByVerificationToken(s, tk)}

\* Update: the existing user comes from the mirror, else from Get; the mirror
\* is updated first, then the remote record of the same id (upGet, upWrite:
\* whether the remote read and the remote write are answered).
AirtableRepository_Update(s, id, updatedUser, upGet, upWrite) ==
    LET m == InMemoryRepository_Get(s, id)
        existing == IF m.ok THEN m ELSE AirtableRepository_Get(s, id, upGet)
        u == InMemoryRepository_Update(s, id,
                 [updatedUser EXCEPT !.Email = existing.user.Email])
        w == Client_UpdateRecordPartial(u.s, upWrite, id,
                 ToAirtableFieldsForUpdate(u.user))
    IN IF ~existing.ok THEN [err |-> "not found", user |-> NoUser, s |-> s]
       ELSE IF u.err # "" THEN [err |-> u.err, user |-> NoUser, s |-> s]
       ELSE [err |-> "", user |-> u.user, s |-> w.s]

\* ------------------------------------ AirtableRepository without a mirror
Remote_List(s, up) ==
    LET l == Client_ListRecords(s, up)
    IN IF l.err THEN [users |-> <<>>, from |-> "none", failed |-> TRUE]
       ELSE [users |-> [k \in 1..Len(l.records) |->
                          Remote_mapAirtableRecord(l.records[k])],
             from |-> "remote", failed |-> FALSE]

Remote_Get(s, id, up) ==
    LET g == Client_GetRecord(s, up, id)
    IN IF g.err THEN Absent("none", TRUE)
       ELSE Found(Remote_mapAirtableRecord(g.record), "remote", FALSE)

Remote_GetByEmail(s, email, up) ==
    LET e == TrimSpace(email)
        q == Client_ListByEmail(s, up, ToLower(e))
    IN IF e = "" THEN {Absent("none", FALSE)}
       ELSE IF q.err THEN {Absent("none", TRUE)}
       ELSE IF q.ids # {}
            THEN {Found(Remote_mapAirtableRecord([ID |-> i, Fields |-> s.remote[i]]),
                        "remote", FALSE) : i \in q.ids}
       ELSE {Absent("remote", FALSE)}

\* Create: existence query, then the remote write (upGet, upWrite).  `seen`
\* is the result of the existence query.
Remote_CreateWrite(s, user, seen, upWrite) ==
    LET w == Client_CreateRecord(s, upWrite, ToAirtableFieldsForCreate(user))
    IN IF seen.ok THEN [err |-> "already exists", user |-> NoUser, s |-> s]
       ELSE IF w.err THEN [err |-> "failed to create user in Airtable",
                           user |-> NoUser, s |-> s]
       ELSE [err |-> "", user |-> [user EXCEPT !.ID = w.ID], s |-> w.s]

Remote_Delete(s, id, up) ==
    LET d == Client_DeleteRecord(s, up, id)
    IN [ok |-> ~d.err, s |-> d.s]

Remote_Update(s, id, updatedUser, upGet, upWrite) ==
    LET existing == Remote_Get(s, id, upGet)
        u == [updatedUser EXCEPT
                !.Email = existing.user.Email,
                !.ID = id,
                !.Password = IF updatedUser.Password = ""
                             THEN existing.user.Password ELSE @,
                !.Role = IF updatedUser.Role = "" THEN existing.user.Role ELSE @,
                !.Status = IF updatedUser.Status = ""
                           THEN existing.user.Status ELSE @]
        w == Client_UpdateRecordPartial(s, upWrite, id, ToAirtableFieldsForUpdate(u))
    IN IF ~existing.ok THEN [err |-> "not found", user |-> NoUser, s |-> s]
       ELSE IF w.err THEN [err |-> "failed to update user in Airtable",
                           user |-> NoUser, s |-> s]
       ELSE [err |-> "", user |-> u, s |-> w.s]

\* ------------------------------------------- the Repository a handler holds
\* h.repo.X dispatches on the implementation behind the interface.  Reads and
\* Create return the set of results the call can produce.
Repo_GetByEmail(s, email, up) ==
    CASE impl = "mem" ->
           {Tag(r, "mem", FALSE) : r \in InMemoryRepository_GetByEmail(s, email)}
      [] impl = "mirror" -> AirtableRepository_GetByEmail(s, email, up)
      [] impl = "remote" -> Remote_GetByEmail(s, email, up)

\* The Airtable-only Repository interface has no GetByVerificationToken.
Repo_GetByVerificationToken(s, token, up) ==
    CASE impl = "mem" ->
           {Tag(r, "mem", FALSE) :
               r \in InMemoryRepository_GetByVerificationToken(s, token)}
      [] impl = "mirror" -> AirtableRepository_GetByVerificationToken(s, token, up)

Repo_Get(s, id, up) ==
    CASE impl = "mem" -> Tag(InMemoryRepository_Get(s, id), "mem", FALSE)
      [] impl = "mirror" -> AirtableRepository_Get(s, id, up)
      [] impl = "remote" -> Remote_Get(s, id, up)

Repo_List(s, up) ==
    CASE impl = "mem" ->
           [users |-> InMemoryRepository_List(s), from |-> "mem", failed |-> FALSE]
      [] impl = "mirror" -> AirtableRepository_List(s, up)
      [] impl = "remote" -> Remote_List(s, up)

Repo_Create(s, user, upGet, upWrite) ==
    CASE impl = "mem" -> {InMemoryRepository_Create(s, user)}
      [] impl = "mirror" -> {AirtableRepository_Create(s, user, upWrite)}
      [] impl = "remote" ->
           {Remote_CreateWrite(s, user, seen, upWrite) :
               seen \in Remote_GetByEmail(s, user.Email, upGet)}

Repo_Update(s, id, user, upGet, upWrite) ==
    CASE impl = "mem" -> InMemoryRepository_Update(s, id, user)
      [] impl = "mirror" -> AirtableRepository_Update(s, id, user, upGet, upWrite)
      [] impl = "remote" -> Remote_Update(s, id, user, upGet, upWrite)

Repo_Delete(s, id, up) ==
    CASE impl = "mem" -> InMemoryRepository_Delete(s, id)
      [] impl = "mirror" -> AirtableRepository_Delete(s, id, up)
      [] impl = "remote" -> Remote_Delete(s, id, up)

\* ---------------------------------------------------- credentials and tokens
\* Passwords a request may carry; binding:"min=6" rejects the short one.
Passwords == {"secret1", "secret2", "short"}
PasswordLen(p) == IF p = "short" THEN 5 ELSE 7

\* The password hash: a one-way image of the plaintext, never empty.
HashPassword(p) == CASE p = "secret1" -> "hash-of-secret1"
                     [] p = "secret2" -> "hash-of-secret2"
                     [] p = "short" -> "hash-of-short"
CheckPassword(hash, p) == hash = HashPassword(p)

\* The bearer token: the claims it embeds.
NoToken == [sub |-> "", email |-> "", role |-> ""]
GenerateToken(user) == [sub |-> user.ID, email |-> user.Email, role |-> user.Role]

\* ----------------------------------------------------------------- responses
NoResp == [op |-> "", arg |-> "", code |-> 0, user |-> NoUser, token |-> NoToken,
           users |-> <<>>, from |-> "", failed |-> FALSE, body |-> NoUser]

\* encoding/json of a User, as c.JSON writes it: every field but the
\* verification token, which the User model never serializes.
MarshalUser(u) == [u EXCEPT !.EmailVerificationToken = ""]

Commit(s) ==
    /\ data' = s.data
    /\ nextID' = s.nextID
    /\ remote' = s.remote
    /\ nextRec' = s.nextRec

\* Ids are handed out while the bound allows.
Room == nextID <= MaxAccounts /\ nextRec <= MaxAccounts

\* ------------------------------------------------------------------ handlers
\* The outcome of RegisterHandler on store s, given the result `seen` of its
\* existence check and the result `c` of h.repo.Create.
RegisterOutcome(email, password, seen, c) ==
    IF PasswordLen(password) < 6
    THEN [NoResp EXCEPT !.op = "register", !.arg = email, !.code = 400]
    ELSE IF seen.ok
    THEN [NoResp EXCEPT !.op = "register", !.arg = email, !.code = 409]
    ELSE IF c.err = "already exists"
    THEN [NoResp EXCEPT !.op = "register", !.arg = email, !.code = 409]
    ELSE IF c.err # ""
    THEN [NoResp EXCEPT !.op = "register", !.arg = email, !.code = 500]
    ELSE [NoResp EXCEPT !.op = "register", !.arg = email, !.code = 201,
                        !.token = GenerateToken(c.user),
                        !.user = [c.user EXCEPT !.Password = ""]]

\* The user RegisterHandler hands to h.repo.Create.
RegisterUser(email, password) ==
    [NoUser EXCEPT !.Email = email, !.Password = HashPassword(password),
                   !.Role = RoleUser]

\* POST /auth/register, start to finish.
RegisterHandler(email, password, upCheck, upGet, upWrite) ==
    /\ Room
    /\ \E seen \in Repo_GetByEmail(Store, email, upCheck) :
       \E c \in Repo_Create(Store, RegisterUser(email, password), upGet, upWrite) :
          LET changed == PasswordLen(password) >= 6 /\ ~seen.ok
          IN /\ resp' = RegisterOutcome(email, password, seen, c)
             /\ Commit(IF changed THEN c.s ELSE Store)
    /\ UNCHANGED <<clock, bearer, mu, call, ctx, impl, pc, loc>>

\* A CreateUser that stores whatever role the payload carries.
CreateUserOutcome_AnyRole(email, password, role, c) ==
    IF PasswordLen(password) < 6
    THEN [NoResp EXCEPT !.op = "createUser", !.arg = email, !.code = 400]
    ELSE IF c.err = "already exists"
    THEN [NoResp EXCEPT !.op = "createUser", !.arg = email, !.code = 409]
    ELSE IF c.err # ""
    THEN [NoResp EXCEPT !.op = "createUser", !.arg = email, !.code = 500]
    ELSE [NoResp EXCEPT !.op = "createUser", !.arg = email, !.code = 201,
                        !.user = [c.user EXCEPT !.Password = ""]]

\* POST /users: role validation, then h.repo.Create; no status is set.
CreateUserOutcome(email, password, role, c) ==
    IF PasswordLen(password) < 6
    THEN [NoResp EXCEPT !.op = "createUser", !.arg = email, !.code = 400]
    ELSE IF role # "" /\ role \notin Range(ValidRoles)
    THEN [NoResp EXCEPT !.op = "createUser", !.arg = email, !.code = 400]
    ELSE IF c.err = "already exists"
    THEN [NoResp EXCEPT !.op = "createUser", !.arg = email, !.code = 409]
    ELSE IF c.err # ""
    THEN [NoResp EXCEPT !.op = "createUser", !.arg = email, !.code = 500]
    ELSE [NoResp EXCEPT !.op = "createUser", !.arg = email, !.code = 201,
                        !.user = [c.user EXCEPT !.Password = ""]]

CreateUser(email, password, role, upGet, upWrite) ==
    /\ Room
    /\ LET user == [NoUser EXCEPT !.Email = email,
                                 !.Password = HashPassword(password),
                                 !.Role = IF role = "" THEN RoleUser ELSE role]
       IN \E c \in Repo_Create(Store, user, upGet, upWrite) :
            LET out == CreateUserOutcome(email, password, role, c)
            IN /\ resp' = [out EXCEPT !.body = [NoUser EXCEPT !.Email = email,
                                                              !.Role = role]]
               /\ Commit(IF out.code \in {400} THEN Store ELSE c.s)
    /\ UNCHANGED <<clock, bearer, mu, call, ctx, impl, pc, loc>>

\* DELETE /users/:id
DeleteUser(id, up) ==
    /\ LET d == Repo_Delete(Store, id, up)
       IN IF id = ""
          THEN /\ resp' = [NoResp EXCEPT !.op = "deleteUser", !.code = 400]
               /\ Commit(Store)
          ELSE /\ resp' = [NoResp EXCEPT !.op = "deleteUser", !.arg = id,
                                         !.code = IF d.ok THEN 200 ELSE 404]
               /\ Commit(d.s)
    /\ UNCHANGED <<clock, bearer, mu, call, ctx, impl, pc, loc>>

\* A ListUsers that leaves the password hashes in the users it returns.
ClearPasswords_KeepsHashes(users) == users

\* Lines 134-137: users[i].Password = "" for every user of the list.
ClearPasswords(users) == [k \in DOMAIN users |-> [users[k] EXCEPT !.Password = ""]]

\* GET /users
ListUsers(up) ==
    /\ LET l == Repo_List(Store, up)
       IN resp' = [NoResp EXCEPT !.op = "listUsers", !.code = 200,
                                 !.users = ClearPasswords(l.users),
                                 !.from = l.from, !.failed = l.failed]
    /\ UNCHANGED <<clock, bearer, mu, call, ctx, impl, data, nextID, remote, nextRec, pc, loc>>

\* GET /auth/verify-email?token=...: find the account by its token, set it
\* active, clear the token, persist.
VerifyEmail(token, upFind, upGet, upWrite) ==
    /\ impl # "remote"
    /\ \E r \in Repo_GetByVerificationToken(Store, token, upFind) :
         LET u == Repo_Update(Store, r.user.ID,
                      [r.user EXCEPT !.Status = StatusActive,
                                     !.EmailVerificationToken = ""],
                      upGet, upWrite)
         IN IF ~r.ok
            THEN /\ resp' = [NoResp EXCEPT !.op = "verifyEmail", !.arg = token,
                                           !.code = 404]
                 /\ Commit(Store)
            ELSE IF u.err # ""
            THEN /\ resp' = [NoResp EXCEPT !.op = "verifyEmail", !.arg = token,
                                           !.code = 500]
                 /\ Commit(Store)
            ELSE /\ resp' = [NoResp EXCEPT !.op = "verifyEmail", !.arg = token,
                                           !.code = 200,
                                           !.user = [u.user EXCEPT !.Password = ""]]
                 /\ Commit(u.s)
    /\ UNCHANGED <<clock, bearer, mu, call, ctx, impl, pc, loc>>

\* A login that answers 404 for an email no account has.
LoginOutcome_RevealsAccount(email, password, r) ==
    LET in == [NoResp EXCEPT !.op = "login", !.arg = email,
                             !.body = [NoUser EXCEPT !.Email = email,
                                                     !.Password = password]]
    IN IF ~r.ok
       THEN [in EXCEPT !.code = 404]
       ELSE IF ~CheckPassword(r.user.Password, password)
       THEN [in EXCEPT !.code = 401]
       ELSE IF r.user.Status = StatusPending
       THEN [in EXCEPT !.code = 403]
       ELSE [in EXCEPT !.code = 200,
                       !.token = GenerateToken(r.user),
                       !.user = [r.user EXCEPT !.Password = ""]]

\* The outcome of a login, given the result r of h.repo.GetByEmail.
LoginOutcome(email, password, r) ==
    LET in == [NoResp EXCEPT !.op = "login", !.arg = email,
                             !.body = [NoUser EXCEPT !.Email = email,
                                                     !.Password = password]]
    IN IF ~r.ok \/ ~CheckPassword(r.user.Password, password)
       THEN [in EXCEPT !.code = 401]
       ELSE IF r.user.Status = StatusPending
       THEN [in EXCEPT !.code = 403]
       ELSE [in EXCEPT !.code = 200,
                       !.token = GenerateToken(r.user),
                       !.user = [r.user EXCEPT !.Password = ""]]

\* POST /auth/login
Login(email, password, up) ==
    /\ \E r \in Repo_GetByEmail(Store, email, up) :
         resp' = LoginOutcome(email, password, r)
    /\ UNCHANGED <<clock, bearer, mu, call, ctx, impl, data, nextID, remote, nextRec, pc, loc>>

\* ------------------------------------------- the repository called directly
\* The token GenerateVerificationToken returns: 32 random bytes, so one no
\* stored account holds.  Tokens are interchangeable, so the first unused one
\* stands for any of them.
Unused(tk) ==
    /\ \A id \in DOMAIN data : data[id].EmailVerificationToken # tk
    /\ \A id \in DOMAIN remote :
         getStringField(remote[id], FieldEmailVerificationToken) # tk
FreshTokens ==
    IF Unused("t1") THEN {"t1"} ELSE IF Unused("t2") THEN {"t2"} ELSE {}

\* The accounts a self-registration with email verification creates: role
\* User, status pending, a fresh verification token.
PendingUsers ==
    {[NoUser EXCEPT !.Email = e, !.Password = HashPassword("secret1"),
                    !.Role = RoleUser, !.Status = StatusPending,
                    !.EmailVerificationToken = tk] : e \in Emails, tk \in FreshTokens}

\* The users Create is called with.  The Airtable-only repository has no
\* verification-token operations: with it, accounts are created the way
\* RegisterHandler creates them.
NewUsers ==
    IF impl = "remote"
    THEN {RegisterUser(e, "secret1") : e \in Emails}
    ELSE PendingUsers

\* What a caller of Update may supply: nothing; a new password hash and role;
\* a new status and another email.
Partials ==
    {NoUser,
     [NoUser EXCEPT !.Password = HashPassword("secret2"), !.Role = RoleAdmin],
     [NoUser EXCEPT !.Status = StatusActive, !.Email = "b@x.com"]}

\* Every id in use, and one that is not.
SomeIDs == DOMAIN data \cup DOMAIN remote \cup {"9"}

\* Whether Create reached its remote write and the write returned an error:
\* the mirrored Create writes remotely once the mirror has created the user,
\* the Airtable-only Create reports the failed write as its error.
CreateWriteFailed(s, user, c, upWrite) ==
    CASE impl = "mem" -> FALSE
      [] impl = "mirror" ->
           /\ InMemoryRepository_Create(s, user).err = ""
           /\ Client_CreateRecord(s, upWrite, ToAirtableFieldsForCreate(user)).err
      [] impl = "remote" -> c.err = "failed to create user in Airtable"

\* Whether Update reached its remote write and the write returned an error.
UpdateWriteFailed(s, id, u, upWrite) ==
    CASE impl = "mem" -> FALSE
      [] impl = "mirror" ->
           /\ InMemoryRepository_Get(s, id).ok
           /\ Client_UpdateRecordPartial(s, upWrite, id, <<>>).err
      [] impl = "remote" -> u.err = "failed to update user in Airtable"

\* Repository.Create
Create(user, upGet, upWrite) ==
    /\ Room
    /\ \E c \in Repo_Create(Store, user, upGet, upWrite) :
          /\ resp' = [NoResp EXCEPT !.op = "create", !.arg = user.Email,
                                    !.code = IF c.err = "" THEN 200 ELSE 500,
                                    !.user = c.user, !.body = user,
                                    !.failed = CreateWriteFailed(Store, user, c, upWrite)]
          /\ Commit(c.s)
    /\ UNCHANGED <<clock, bearer, mu, call, ctx, impl, pc, loc>>

\* Repository.Update
Update(id, partial, upGet, upWrite) ==
    /\ LET u == Repo_Update(Store, id, partial, upGet, upWrite)
       IN /\ resp' = [NoResp EXCEPT !.op = "update", !.arg = id,
                                    !.code = IF u.err = "" THEN 200 ELSE 500,
                                    !.user = u.user, !.body = partial,
                                    !.failed = UpdateWriteFailed(Store, id, u, upWrite)]
          /\ Commit(u.s)
    /\ UNCHANGED <<clock, bearer, mu, call, ctx, impl, pc, loc>>

\* Repository.Delete
Delete(id, up) ==
    /\ LET d == Repo_Delete(Store, id, up)
       IN /\ resp' = [NoResp EXCEPT !.op = "delete", !.arg = id,
                                    !.code = IF d.ok THEN 200 ELSE 404]
          /\ Commit(d.s)
    /\ UNCHANGED <<clock, bearer, mu, call, ctx, impl, pc, loc>>

\* Repository.Get
Get(id, up) ==
    /\ LET g == Repo_Get(Store, id, up)
       IN resp' = [NoResp EXCEPT !.op = "get", !.arg = id,
                                 !.code = IF g.ok THEN 200 ELSE 404,
                                 !.user = g.user, !.from = g.from,
                                 !.failed = g.failed]
    /\ UNCHANGED <<clock, bearer, mu, call, ctx, impl, data, nextID, remote, nextRec, pc, loc>>

\* Repository.GetByEmail
GetByEmail(email, up) ==
    /\ \E g \in Repo_GetByEmail(Store, email, up) :
         resp' = [NoResp EXCEPT !.op = "getByEmail", !.arg = email,
                                !.code = IF g.ok THEN 200 ELSE 404,
                                !.user = g.user, !.from = g.from,
                                !.failed = g.failed]
    /\ UNCHANGED <<clock, bearer, mu, call, ctx, impl, data, nextID, remote, nextRec, pc, loc>>

\* Repository.GetByVerificationToken
GetByVerificationToken(token, up) ==
    /\ impl # "remote"
    /\ \E g \in Repo_GetByVerificationToken(Store, token, up) :
         resp' = [NoResp EXCEPT !.op = "getByVerificationToken", !.arg = token,
                                !.code = IF g.ok THEN 200 ELSE 404,
                                !.user = g.user, !.from = g.from,
                                !.failed = g.failed]
    /\ UNCHANGED <<clock, bearer, mu, call, ctx, impl, data, nextID, remote, nextRec, pc, loc>>

\* Repository.List
List(up) ==
    /\ LET l == Repo_List(Store, up)
       IN resp' = [NoResp EXCEPT !.op = "list", !.code = 200, !.users = l.users,
                                 !.from = l.from, !.failed = l.failed]
    /\ UNCHANGED <<clock, bearer, mu, call, ctx, impl, data, nextID, remote, nextRec, pc, loc>>

\* -------------------------------------------- authorization middleware chain
\* The signing key of the server, and a key it does not hold.
jwtSecret == "secret"
SigningKeys == {jwtSecret, "forged"}

\* The bearer tokens a request may carry: the claims, the expiry time, and the
\* key that signed them; "malformed" stands for a string that is no token.
Bearers ==
    [sub : {"1", "recA"}, email : {"a@x.com"},
     role : {RoleSuperAdmin, RoleAdmin, RoleUser},
     exp : 0..MaxTime, key : SigningKeys]
        \cup {[sub |-> "", email |-> "", role |-> "", exp |-> 0, key |-> "malformed"]}

\* The Authorization header of a request: absent, or "Bearer <token>".
NoHeader == [present |-> FALSE, token |-> CHOOSE b \in Bearers : b.key = "malformed"]
Headers == {NoHeader} \cup {[present |-> TRUE, token |-> b] : b \in Bearers}

\* A verification that still accepts a token at the instant it expires.
ValidateToken_ExpiryInclusive(token, now) == token.key = jwtSecret /\ now <= token.exp

\* Token verification at time now: the signature matches the server's key and
\* now is before the expiry.
ValidateToken(token, now) == token.key = jwtSecret /\ now < token.exp

\* The accepted set of the convenience gate.
RequireAnyRole == {RoleAdmin, RoleUser}

\* A route: whether AuthMiddleware is composed, the accepted set of its role
\* gate ({} for no role gate), and its handler.
Route(auth, gate, accepted, handler) ==
    [auth |-> auth, gate |-> gate, accepted |-> accepted, handler |-> handler]
Routes ==
    {Route(a, "RequireRole", s, "handler") :
        a \in BOOLEAN, s \in {{RoleAdmin}, {RoleSuperAdmin, RoleAdmin}}}
      \cup {Route(a, "RequireAnyRole", RequireAnyRole, "handler") : a \in BOOLEAN}
      \cup {Route(a, "", {}, h) :
               a \in BOOLEAN, h \in {"handler", "ToggleLocationStatus"}}

\* gin.Context values are untyped: a value carries its dynamic type.
String(s) == [type |-> "string", val |-> s]
Nil == [type |-> "nil", val |-> ""]
c_Get(c, key) ==
    IF key \in DOMAIN c.keys
    THEN [value |-> c.keys[key], exists |-> TRUE]
    ELSE [value |-> Nil, exists |-> FALSE]

\* The request context before a request arrives.
NoCtx == [stage |-> "idle", header |-> NoHeader,
          route |-> Route(FALSE, "", {}, "handler"), now |-> 0,
          keys |-> <<>>, code |-> 0, error |-> "", listed |-> {},
          ran |-> FALSE, panicked |-> FALSE]

\* The stage after `stage` in the chain of the route.
NextStage(route, stage) ==
    IF stage = "idle" /\ route.auth THEN "auth"
    ELSE IF stage # "role" /\ route.gate # "" THEN "role"
    ELSE "handler"

\* c.AbortWithStatusJSON / a handler's error response: no later stage runs.
Abort(c, code, error, listed) ==
    [c EXCEPT !.stage = "done", !.code = code, !.error = error, !.listed = listed]

\* An authentication gate that checks the signature and not the expiry.
AuthMiddleware_IgnoresExpiry(c) ==
    IF ~c.header.present
    THEN Abort(c, 401, "Authorization header required", {})
    ELSE IF c.header.token.key # jwtSecret
    THEN Abort(c, 401, "Invalid or expired token", {})
    ELSE [c EXCEPT !.stage = NextStage(c.route, "auth"),
                   !.keys = [k \in {"user_id", "user_email", "user_role"} |->
                               CASE k = "user_id" -> String(c.header.token.sub)
                                 [] k = "user_email" -> String(c.header.token.email)
                                 [] k = "user_role" -> String(c.header.token.role)]]

\* An authentication gate that looks the account of the token up and rejects
\* the token of an account that is gone or whose role has changed.
AuthMiddleware_ChecksAccount(c) ==
    IF ~c.header.present
    THEN Abort(c, 401, "Authorization header required", {})
    ELSE IF \/ ~ValidateToken(c.header.token, c.now)
            \/ c.header.token.sub \notin DOMAIN data
            \/ data[c.header.token.sub].Role # c.header.token.role
    THEN Abort(c, 401, "Invalid or expired token", {})
    ELSE [c EXCEPT !.stage = NextStage(c.route, "auth"),
                   !.keys = [k \in {"user_id", "user_email", "user_role"} |->
                               CASE k = "user_id" -> String(c.header.token.sub)
                                 [] k = "user_email" -> String(c.header.token.email)
                                 [] k = "user_role" -> String(c.header.token.role)]]

\* The authentication gate.
AuthMiddleware(c) ==
    IF ~c.header.present
    THEN Abort(c, 401, "Authorization header required", {})
    ELSE IF ~ValidateToken(c.header.token, c.now)
    THEN Abort(c, 401, "Invalid or expired token", {})
    ELSE [c EXCEPT !.stage = NextStage(c.route, "auth"),
                   !.keys = [k \in {"user_id", "user_email", "user_role"} |->
                               CASE k = "user_id" -> String(c.header.token.sub)
                                 [] k = "user_email" -> String(c.header.token.email)
                                 [] k = "user_role" -> String(c.header.token.role)]]

\* A role gate that lets Super Admin through whatever set it was given.
RequireRole_SuperAdminPasses(c, roles) ==
    LET userRole == c_Get(c, "user_role")
    IN IF ~userRole.exists
       THEN Abort(c, 401, "User role not found in context", {})
       ELSE IF userRole.value.val \notin roles \cup {RoleSuperAdmin}
       THEN Abort(c, 403, "Insufficient permissions. Required roles", roles)
       ELSE [c EXCEPT !.stage = NextStage(c.route, "role")]

\* The role gate with accepted set `roles`.
RequireRole(c, roles) ==
    LET userRole == c_Get(c, "user_role")
    IN IF ~userRole.exists
       THEN Abort(c, 401, "User role not found in context", {})
       ELSE IF userRole.value.type # "string"
       THEN [Abort(c, 500, "panic", {}) EXCEPT !.panicked = TRUE]
       ELSE IF userRole.value.val \notin roles
       THEN Abort(c, 403, "Insufficient permissions. Required roles", roles)
       ELSE [c EXCEPT !.stage = NextStage(c.route, "role")]

\* A handler with no role check of its own.
PlainHandler(c) == [c EXCEPT !.stage = "done", !.code = 200, !.ran = TRUE]

\* A ToggleLocationStatus that casts the context value before looking at
\* `exists`: the cast of a missing value panics.
ToggleLocationStatus_CastFirst(c) ==
    LET userRole == c_Get(c, "user_role")
    IN IF userRole.value.type # "string"
       THEN [Abort(c, 500, "panic", {}) EXCEPT !.panicked = TRUE]
       ELSE IF ~userRole.exists
       THEN Abort(c, 401, "User role not found", {})
       ELSE IF userRole.value.val # RoleAdmin /\ userRole.value.val # RoleSuperAdmin
       THEN Abort(c, 403, "Admin or Super Admin role required", {})
       ELSE [c EXCEPT !.stage = "done", !.code = 200, !.ran = TRUE]

\* ToggleLocationStatus: the role check at the head of the handler, then the
\* handler body.
ToggleLocationStatus(c) ==
    LET userRole == c_Get(c, "user_role")
    IN IF ~userRole.exists
       THEN Abort(c, 401, "User role not found", {})
       ELSE IF userRole.value.type # "string"
       THEN [Abort(c, 500, "panic", {}) EXCEPT !.panicked = TRUE]
       ELSE IF userRole.value.val # RoleAdmin /\ userRole.value.val # RoleSuperAdmin
       THEN Abort(c, 403, "Admin or Super Admin role required", {})
       ELSE [c EXCEPT !.stage = "done", !.code = 200, !.ran = TRUE]

\* A request arrives at a route at time now.
Request(header, route, now) ==
    /\ ctx.stage \in {"idle", "done"}
    /\ ctx' = [NoCtx EXCEPT !.stage = NextStage(route, "idle"),
                            !.header = header, !.route = route, !.now = now]
    /\ UNCHANGED <<clock, bearer, mu, call, impl, data, nextID, remote, nextRec,
                   resp, pc, loc>>

AuthStep ==
    /\ ctx.stage = "auth"
    /\ ctx' = AuthMiddleware(ctx)
    /\ UNCHANGED <<clock, bearer, mu, call, impl, data, nextID, remote, nextRec,
                   resp, pc, loc>>

RoleStep ==
    /\ ctx.stage = "role"
    /\ ctx' = RequireRole(ctx, ctx.route.accepted)
    /\ UNCHANGED <<clock, bearer, mu, call, impl, data, nextID, remote, nextRec,
                   resp, pc, loc>>

HandlerStep ==
    /\ ctx.stage = "handler"
    /\ ctx' = IF ctx.route.handler = "ToggleLocationStatus"
              THEN ToggleLocationStatus(ctx) ELSE PlainHandler(ctx)
    /\ UNCHANGED <<clock, bearer, mu, call, impl, data, nextID, remote, nextRec,
                   resp, pc, loc>>

\* ------------------------------------------------------------ token service
\* The claims a verified token yields.
Claims(token) == [sub |-> token.sub, email |-> token.email, role |-> token.role]

\* The token lifetimes a Handler may be configured with (h.tokenExpiry).
TokenExpiries == 0..MaxTime

\* GenerateToken(user, secret, expiry) called at time now: the claims of the
\* user, expiring at now + expiry, signed with secret.
SignToken(user, secret, expiry, now) ==
    [sub |-> GenerateToken(user).sub, email |-> GenerateToken(user).email,
     role |-> GenerateToken(user).role, exp |-> now + expiry, key |-> secret]

\* What a client holds of a token response: the token, and for reference the
\* claims it was issued with, the time of issue and the lifetime (ExpiresIn).
NoBearer == [issued |-> FALSE, token |-> NoHeader.token, claims |-> NoToken,
             iat |-> 0, ttl |-> 0]
Issued(user, expiry) ==
    [issued |-> TRUE, token |-> SignToken(user, jwtSecret, expiry, clock),
     claims |-> GenerateToken(user), iat |-> clock, ttl |-> expiry]

\* POST /auth/register at the time of the clock, by a client that keeps the
\* token of the response.
RegisterAt(email, password, expiry) ==
    /\ Room
    /\ \E seen \in Repo_GetByEmail(Store, email, TRUE) :
       \E c \in Repo_Create(Store, RegisterUser(email, password), TRUE, TRUE) :
          LET out == RegisterOutcome(email, password, seen, c)
              changed == PasswordLen(password) >= 6 /\ ~seen.ok
          IN /\ resp' = out
             /\ Commit(IF changed THEN c.s ELSE Store)
             /\ bearer' = IF out.code = 201 THEN Issued(c.user, expiry) ELSE bearer
    /\ UNCHANGED <<clock, mu, call, ctx, impl, pc, loc>>

\* POST /auth/login at the time of the clock, by a client that keeps the
\* token of the response.
LoginAt(email, password, expiry) ==
    /\ \E r \in Repo_GetByEmail(Store, email, TRUE) :
         LET out == LoginOutcome(email, password, r)
         IN /\ resp' = out
            /\ bearer' = IF out.code = 200 THEN Issued(r.user, expiry) ELSE bearer
    /\ UNCHANGED <<clock, mu, call, ctx, impl, data, nextID, remote, nextRec, pc, loc>>

\* Time passes between requests.
Tick ==
    /\ clock < MaxTime
    /\ ctx.stage \in {"idle", "done"}
    /\ clock' = clock + 1
    /\ UNCHANGED <<bearer, mu, call, ctx, impl, data, nextID, remote, nextRec,
                   resp, pc, loc>>

\* The headers the client sends: none, its token, its token re-signed with a
\* key the server does not hold.
HeldHeaders ==
    {NoHeader} \cup
    (IF bearer.issued
     THEN {[present |-> TRUE, token |-> bearer.token],
           [present |-> TRUE, token |-> [bearer.token EXCEPT !.key = "forged"]]}
     ELSE {})

\* The routes it sends them to: behind the authentication gate alone, and
\* behind the gate for Admin as well.
TokenRoutes ==
    {Route(TRUE, "", {}, "handler"), Route(TRUE, "RequireRole", {RoleAdmin}, "handler")}

\* ------------------------------------------------------------- goroutines
\* The goroutines that serve concurrent requests, and the locals of one.
Workers == {1, 2}
NoLoc == [email |-> "", password |-> "", user |-> NoUser,
          seen |-> Absent("", FALSE), resp |-> NoResp]

\* ----------------------------------- InMemoryRepository under its RWMutex
\* The methods that read the map, and those that write it.
ReadMethods == {"List", "Get", "GetByEmail", "GetByVerificationToken"}
WriteMethods == {"Create", "Update", "Delete"}

\* A repository whose Delete takes the read lock.
LockOf_DeleteReadLocks(method) ==
    IF method \in {"Create", "Update"} THEN "Lock" ELSE "RLock"

\* The lock a method takes on entry, and releases by defer on return.
LockOf(method) == IF method \in WriteMethods THEN "Lock" ELSE "RLock"

\* sync.RWMutex: whether a writer holds it, and the number of readers holding
\* it.  Lock waits until nobody holds it, RLock until no writer does.
Unlocked == [w |-> FALSE, r |-> 0]
CanAcquire(m, kind) == IF kind = "Lock" THEN ~m.w /\ m.r = 0 ELSE ~m.w
Acquire(m, kind) ==
    IF kind = "Lock" THEN [m EXCEPT !.w = TRUE] ELSE [m EXCEPT !.r = @ + 1]
Release(m, kind) ==
    IF kind = "Lock" THEN [m EXCEPT !.w = FALSE] ELSE [m EXCEPT !.r = @ - 1]

\* The calls the goroutines make: method, string argument, user argument.
LockCalls ==
    {<<"List", "", NoUser>>, <<"Get", "1", NoUser>>,
     <<"GetByEmail", "a@x.com", NoUser>>,
     <<"GetByVerificationToken", "t1", NoUser>>}
      \cup {<<"Create", e, RegisterUser(e, "secret1")>> : e \in {"a@x.com", "b@x.com"}}
      \cup {<<"Update", "1", u>> : u \in Partials \ {NoUser}}
      \cup {<<"Delete", id, NoUser>> : id \in {"1", "2"}}

\* The method a goroutine is in, and whether a Create is between its two
\* writes (nextID advanced, the user not yet in the map).
MethodOf(w) == loc[w].resp.op
MidWrite == \E v \in Workers : pc[v] = "assigned"

\* A goroutine calls a method of the repository.
CallStart(w, q) ==
    /\ pc[w] = "idle"
    /\ q[1] = "Create" => Room
    /\ pc' = [pc EXCEPT ![w] = "want"]
    /\ loc' = [loc EXCEPT ![w] =
                 [NoLoc EXCEPT !.user = q[3],
                               !.resp = [NoResp EXCEPT !.op = q[1], !.arg = q[2]]]]
    /\ UNCHANGED <<clock, bearer, mu, call, ctx, impl, data, nextID, remote, nextRec, resp>>

\* r.mu.Lock() / r.mu.RLock() returns.
Enter(w) ==
    /\ pc[w] = "want"
    /\ CanAcquire(mu, LockOf(MethodOf(w)))
    /\ mu' = Acquire(mu, LockOf(MethodOf(w)))
    /\ pc' = [pc EXCEPT ![w] = "in"]
    /\ UNCHANGED <<clock, bearer, call, ctx, impl, data, nextID, remote, nextRec, resp, loc>>

\* The body of List, Get, GetByEmail, GetByVerificationToken; `failed` tells
\* that the map was read while a write to it was under way.
ReadStep(w) ==
    /\ pc[w] = "in"
    /\ MethodOf(w) \in ReadMethods
    /\ LET arg == loc[w].resp.arg
           found == CASE MethodOf(w) = "Get" -> {InMemoryRepository_Get(Store, arg)}
                      [] MethodOf(w) = "GetByEmail" ->
                           InMemoryRepository_GetByEmail(Store, arg)
                      [] MethodOf(w) = "GetByVerificationToken" ->
                           InMemoryRepository_GetByVerificationToken(Store, arg)
                      [] MethodOf(w) = "List" -> {[user |-> NoUser, ok |-> TRUE]}
       IN \E g \in found :
            loc' = [loc EXCEPT ![w].resp =
                      [@ EXCEPT !.code = IF g.ok THEN 200 ELSE 404,
                                !.user = g.user,
                                !.users = IF MethodOf(w) = "List"
                                          THEN InMemoryRepository_List(Store)
                                          ELSE <<>>,
                                !.from = "mem",
                                !.failed = MidWrite]]
    /\ pc' = [pc EXCEPT ![w] = "out"]
    /\ UNCHANGED <<clock, bearer, mu, call, ctx, impl, data, nextID, remote, nextRec, resp>>

\* Create, lines 72-80: the duplicate check, the id, r.nextID++.
CreateAssign(w) ==
    /\ pc[w] = "in"
    /\ MethodOf(w) = "Create"
    /\ LET c == InMemoryRepository_Create(Store, loc[w].user)
       IN IF c.err # ""
          THEN /\ pc' = [pc EXCEPT ![w] = "out"]
               /\ loc' = [loc EXCEPT ![w].resp = [@ EXCEPT !.code = 500]]
               /\ UNCHANGED nextID
          ELSE /\ pc' = [pc EXCEPT ![w] = "assigned"]
               /\ loc' = [loc EXCEPT ![w].user = c.user]
               /\ nextID' = c.s.nextID
    /\ UNCHANGED <<clock, bearer, mu, call, ctx, impl, data, remote, nextRec, resp>>

\* Create, line 81: r.data[user.ID] = user.
CreateStore(w) ==
    /\ pc[w] = "assigned"
    /\ data' = (loc[w].user.ID :> loc[w].user) @@ data
    /\ pc' = [pc EXCEPT ![w] = "out"]
    /\ loc' = [loc EXCEPT ![w].resp = [@ EXCEPT !.code = 200, !.user = loc[w].user]]
    /\ UNCHANGED <<clock, bearer, mu, call, ctx, impl, nextID, remote, nextRec, resp>>

\* The body of Update and of Delete: one write to the map.
WriteStep(w) ==
    /\ pc[w] = "in"
    /\ MethodOf(w) \in {"Update", "Delete"}
    /\ IF MethodOf(w) = "Update"
       THEN LET u == InMemoryRepository_Update(Store, loc[w].resp.arg, loc[w].user)
            IN /\ Commit(u.s)
               /\ loc' = [loc EXCEPT ![w].resp =
                            [@ EXCEPT !.code = IF u.err = "" THEN 200 ELSE 500,
                                      !.user = u.user]]
       ELSE LET d == InMemoryRepository_Delete(Store, loc[w].resp.arg)
            IN /\ Commit(d.s)
               /\ loc' = [loc EXCEPT ![w].resp =
                            [@ EXCEPT !.code = IF d.ok THEN 200 ELSE 404]]
    /\ pc' = [pc EXCEPT ![w] = "out"]
    /\ UNCHANGED <<clock, bearer, mu, call, ctx, impl, resp>>

\* The deferred Unlock / RUnlock, and the return to the caller.
Leave(w) ==
    /\ pc[w] = "out"
    /\ mu' = Release(mu, LockOf(MethodOf(w)))
    /\ resp' = loc[w].resp
    /\ pc' = [pc EXCEPT ![w] = "idle"]
    /\ loc' = [loc EXCEPT ![w] = NoLoc]
    /\ UNCHANGED <<clock, bearer, call, ctx, impl, data, nextID, remote, nextRec>>

\* ---------------------------- AirtableRepository calls waiting on Airtable
\* A call of the mirrored repository, from the moment it has called the
\* airtable.Client until it returns: the method, its arguments (for Create
\* and Update the user the mirror returned), and whether the context of the
\* request is done (deadline passed, or cancelled).
NoCall == [stage |-> "idle", op |-> "", arg |-> "", user |-> NoUser,
           cancelled |-> FALSE]

\* Whether the remote call of a method ends when the context of the request
\* is done.  List, Get pass context.Background(), for which the Client takes
\* the library call without a context; Create passes the request's context
\* to CreateRecord, which calls AddRecords without it; Update passes it to
\* UpdateRecordPartial, which calls GetRecordContext and
\* UpdateRecordPartialContext with it.
Cancellable(op) == op = "Update"

\* The calls made: method, string argument, user argument.
RemoteCalls ==
    {<<"List", "", NoUser>>}
      \cup {<<"Get", id, NoUser>> : id \in SomeIDs}
      \cup {<<"Create", u.Email, u>> : u \in NewUsers}
      \cup {<<"Update", id, u>> : id \in DOMAIN data, u \in Partials \ {NoUser}}

\* The repository is called: Create and Update write the mirror, then every
\* method calls the airtable.Client and waits for it.
CallBegin(q) ==
    /\ call.stage \in {"idle", "returned"}
    /\ q[1] = "Create" => Room
    /\ LET waiting == [NoCall EXCEPT !.stage = "waiting", !.op = q[1], !.arg = q[2]]
       IN CASE q[1] = "Create" ->
                 LET c == InMemoryRepository_Create(Store, q[3])
                 IN /\ Commit(c.s)
                    /\ IF c.err # ""
                       THEN /\ call' = [waiting EXCEPT !.stage = "returned"]
                            /\ resp' = [NoResp EXCEPT !.op = "create", !.arg = q[2],
                                                      !.code = 500, !.body = q[3]]
                       ELSE /\ call' = [waiting EXCEPT !.user = c.user]
                            /\ resp' = resp
            [] q[1] = "Update" ->
                 LET u == InMemoryRepository_Update(Store, q[2],
                              [q[3] EXCEPT !.Email = data[q[2]].Email])
                 IN /\ Commit(u.s)
                    /\ call' = [waiting EXCEPT !.user = u.user]
                    /\ resp' = resp
            [] OTHER ->
                 /\ Commit(Store)
                 /\ call' = waiting
                 /\ resp' = resp
    /\ UNCHANGED <<clock, bearer, mu, ctx, impl, pc, loc>>

\* The airtable.Client returns, with Airtable's answer (up) or with an error,
\* and the repository returns to its caller.
Returns(up) ==
    /\ call' = [call EXCEPT !.stage = "returned"]
    /\ CASE call.op = "List" ->
              LET l == AirtableRepository_List(Store, up)
              IN /\ resp' = [NoResp EXCEPT !.op = "list", !.code = 200,
                                           !.users = l.users, !.from = l.from,
                                           !.failed = l.failed]
                 /\ Commit(Store)
         [] call.op = "Get" ->
              LET g == AirtableRepository_Get(Store, call.arg, up)
              IN /\ resp' = [NoResp EXCEPT !.op = "get", !.arg = call.arg,
                                           !.code = IF g.ok THEN 200 ELSE 404,
                                           !.user = g.user, !.from = g.from,
                                           !.failed = g.failed]
                 /\ Commit(Store)
         [] call.op = "Create" ->
              LET c == AirtableRepository_CreateSync(Store, call.user, up)
              IN /\ resp' = [NoResp EXCEPT !.op = "create", !.arg = call.arg,
                                           !.code = 200, !.user = c.user,
                                           !.failed = c.user = call.user]
                 /\ Commit(c.s)
         [] call.op = "Update" ->
              LET w == Client_UpdateRecordPartial(Store, up, call.arg,
                           ToAirtableFieldsForUpdate(call.user))
              IN /\ resp' = [NoResp EXCEPT !.op = "update", !.arg = call.arg,
                                           !.code = 200, !.user = call.user,
                                           !.failed = w.err]
                 /\ Commit(w.s)
    /\ UNCHANGED <<clock, bearer, mu, ctx, impl, pc, loc>>

\* Airtable answers the call, or the connection fails.
Answer(up) ==
    /\ call.stage = "waiting"
    /\ Returns(up)

\* The context of the request is done while the call waits.
Cancel ==
    /\ call.stage = "waiting"
    /\ ~call.cancelled
    /\ call' = [call EXCEPT !.cancelled = TRUE]
    /\ UNCHANGED <<clock, bearer, mu, ctx, impl, data, nextID, remote, nextRec,
                   resp, pc, loc>>

\* A library call that was given the context returns its error: the
\* repository treats it as any error of the remote call.
Abandon ==
    /\ call.stage = "waiting"
    /\ call.cancelled
    /\ Cancellable(call.op)
    /\ Returns(FALSE)

\* ------------------------------------------------------------ specification
Init ==
    /\ impl \in {"mem", "mirror", "remote"}
    /\ data = <<>>
    /\ nextID = 1
    /\ remote = <<>>
    /\ nextRec = 1
    /\ resp = NoResp
    /\ pc = [w \in Workers |-> "idle"]
    /\ loc = [w \in Workers |-> NoLoc]
    /\ ctx = NoCtx
    /\ clock = 0
    /\ bearer = NoBearer
    /\ mu = Unlocked
    /\ call = NoCall

\* The outcomes of a remote call: none with the in-memory repository; `Up`
\* for the calls every Airtable repository makes, `UpQuery` for the existence
\* query only the Airtable-only Create makes, `UpRead(id)` for the remote read
\* Update makes (the mirrored Update only for an id the mirror lacks).
Up == IF impl = "mem" THEN {TRUE} ELSE BOOLEAN
UpQuery == IF impl = "remote" THEN BOOLEAN ELSE {TRUE}
UpRead(id) ==
    IF impl = "remote" \/ (impl = "mirror" /\ id \notin DOMAIN data)
    THEN BOOLEAN ELSE {TRUE}

RegisterRequests ==
    {<<e, "secret1">> : e \in Emails} \cup {<<"b@x.com", "short">>}
CreateUserRequests ==
    {<<e, "secret1", r>> : e \in Emails, r \in {"", RoleAdmin}}
        \cup {<<"b@x.com", "short", "">>, <<"b@x.com", "secret1", "Guest">>}

\* ------------------------------------- RegisterHandler, one step at a time
\* Lines 48-59: binding, then the existence check h.repo.GetByEmail.
RegStart(w, email, password, up) ==
    /\ pc[w] = "idle"
    /\ \E seen \in Repo_GetByEmail(Store, email, up) :
         IF PasswordLen(password) < 6 \/ seen.ok
         THEN /\ pc' = [pc EXCEPT ![w] = "done"]
              /\ loc' = [loc EXCEPT ![w] =
                           [NoLoc EXCEPT !.email = email, !.password = password,
                               !.resp = RegisterOutcome(email, password, seen,
                                            [err |-> "", user |-> NoUser])]]
         ELSE /\ pc' = [pc EXCEPT ![w] = "checked"]
              /\ loc' = [loc EXCEPT ![w] =
                           [NoLoc EXCEPT !.email = email, !.password = password]]
    /\ UNCHANGED <<clock, bearer, mu, call, ctx, impl, data, nextID, remote, nextRec, resp>>

Finish(w, c) ==
    /\ pc' = [pc EXCEPT ![w] = "done"]
    /\ loc' = [loc EXCEPT ![w].resp =
                 RegisterOutcome(loc[w].email, loc[w].password,
                                 Absent("", FALSE), c)]

\* h.repo.Create up to its remote write: the in-memory Create under the
\* mutex, or the existence query of the Airtable-only Create.
RegCreate(w, up) ==
    /\ pc[w] = "checked"
    /\ Room
    /\ LET user == RegisterUser(loc[w].email, loc[w].password)
           c == InMemoryRepository_Create(Store, user)
       IN CASE impl = "mem" -> Commit(c.s) /\ Finish(w, c)
            [] impl = "mirror" ->
                 /\ Commit(c.s)
                 /\ IF c.err # "" THEN Finish(w, c)
                    ELSE /\ pc' = [pc EXCEPT ![w] = "created"]
                         /\ loc' = [loc EXCEPT ![w].user = c.user]
            [] impl = "remote" ->
                 /\ Commit(Store)
                 /\ \E seen \in Remote_GetByEmail(Store, user.Email, up) :
                      /\ pc' = [pc EXCEPT ![w] = "created"]
                      /\ loc' = [loc EXCEPT ![w].user = user, ![w].seen = seen]
    /\ UNCHANGED <<clock, bearer, mu, call, ctx, impl, resp>>

\* The remote write of h.repo.Create, and the response.
RegWrite(w, up) ==
    /\ pc[w] = "created"
    /\ LET c == IF impl = "mirror"
                THEN AirtableRepository_CreateSync(Store, loc[w].user, up)
                ELSE Remote_CreateWrite(Store, loc[w].user, loc[w].seen, up)
       IN Commit(c.s) /\ Finish(w, c)
    /\ UNCHANGED <<clock, bearer, mu, call, ctx, impl, resp>>

\* The HTTP surface, and the registration that creates a pending account.
Next ==
    \/ \E q \in RegisterRequests, a \in Up, b \in UpQuery, c \in Up :
          RegisterHandler(q[1], q[2], a, b, c)
    \/ \E q \in CreateUserRequests, a \in UpQuery, b \in Up :
          CreateUser(q[1], q[2], q[3], a, b)
    \/ \E id \in SomeIDs \cup {""}, a \in Up : DeleteUser(id, a)
    \/ \E a \in Up : ListUsers(a)
    \/ \E tk \in Tokens \cup {""}, a \in Up, c \in Up : VerifyEmail(tk, a, TRUE, c)
    \/ \E e \in Emails, p \in {"secret1", "secret2"}, a \in Up : Login(e, p, a)
    \/ \E u \in NewUsers, a \in UpQuery, b \in Up : Create(u, a, b)

\* The Repository interface, called directly.
NextStore ==
    \/ \E u \in NewUsers, a \in UpQuery, b \in Up : Create(u, a, b)
    \/ \E id \in SomeIDs, u \in Partials, b \in Up :
          \E a \in UpRead(id) : Update(id, u, a, b)
    \/ \E id \in SomeIDs, a \in Up : Delete(id, a)
    \/ \E id \in SomeIDs, a \in Up : Get(id, a)
    \/ \E e \in Emails \cup {" a@x.com"}, a \in Up : GetByEmail(e, a)
    \/ \E tk \in Tokens \cup {""}, a \in Up : GetByVerificationToken(tk, a)
    \/ \E a \in Up : List(a)

Spec == Init /\ [][Next]_vars
SpecStore == Init /\ [][NextStore]_vars

\* Two register calls, each on its own worker, in every interleaving.
NextRace ==
    \/ \E w \in Workers, q \in RegisterRequests, a \in Up : RegStart(w, q[1], q[2], a)
    \/ \E w \in Workers, a \in UpQuery : RegCreate(w, a)
    \/ \E w \in Workers, a \in Up : RegWrite(w, a)

SpecRace == Init /\ [][NextRace]_vars

\* Requests through the middleware chain, one stage at a time; the store
\* plays no part in it.
InitGate == Init /\ impl = "mem"
NextGate ==
    \/ \E h \in Headers, r \in Routes, now \in 0..MaxTime : Request(h, r, now)
    \/ AuthStep
    \/ RoleStep
    \/ HandlerStep

SpecGate == InitGate /\ [][NextGate]_vars

\* A client registers or logs in and keeps the token; accounts are changed
\* and deleted; time passes; the client sends the token through the chain.
NextToken ==
    \/ \E x \in TokenExpiries : RegisterAt("a@x.com", "secret1", x)
    \/ \E p \in {"secret1", "secret2"}, x \in TokenExpiries : LoginAt("a@x.com", p, x)
    \/ \E id \in DOMAIN data, u \in Partials \ {NoUser} : Update(id, u, TRUE, TRUE)
    \/ \E id \in DOMAIN data : DeleteUser(id, TRUE)
    \/ Tick
    \/ \E h \in HeldHeaders, r \in TokenRoutes : Request(h, r, clock)
    \/ AuthStep
    \/ RoleStep
    \/ HandlerStep

SpecToken == InitGate /\ [][NextToken]_vars

\* Goroutines calling the in-memory repository, one step at a time, in every
\* interleaving.
InitLock == Init /\ impl = "mem"
NextLock ==
    \/ \E w \in Workers, q \in LockCalls : CallStart(w, q)
    \/ \E w \in Workers : Enter(w)
    \/ \E w \in Workers : ReadStep(w)
    \/ \E w \in Workers : CreateAssign(w)
    \/ \E w \in Workers : CreateStore(w)
    \/ \E w \in Workers : WriteStep(w)
    \/ \E w \in Workers : Leave(w)

SpecLock == InitLock /\ [][NextLock]_vars

\* The mirrored repository in service for ever: callers keep calling Create,
\* Update and the reads, with Airtable answering or failing each call.  The
\* repository starts no goroutine and no timer: nothing runs between calls.
InitSync == Init /\ impl = "mirror"
NextSync ==
    \/ \E u \in NewUsers, b \in Up : Create(u, TRUE, b)
    \/ \E id \in SomeIDs, u \in Partials, b \in Up :
          \E a \in UpRead(id) : Update(id, u, a, b)
    \/ \E id \in SomeIDs, a \in Up : Get(id, a)
    \/ \E e \in Emails, a \in Up : GetByEmail(e, a)
    \/ \E a \in Up : List(a)

SpecSync == InitSync /\ [][NextSync]_vars /\ WF_vars(NextSync)

\* Calls of the mirrored repository, each waiting on Airtable.  The Go
\* runtime fires the deadline of a context and wakes a call whose context is
\* done; nothing makes Airtable answer.
NextCall ==
    \/ \E q \in RemoteCalls : CallBegin(q)
    \/ \E a \in BOOLEAN : Answer(a)
    \/ Cancel
    \/ Abandon

SpecCall == InitSync /\ [][NextCall]_vars /\ WF_vars(Cancel) /\ WF_vars(Abandon)

\* =================================================================== claims
\* The accounts a layer stores, as users.
MirrorUsers == {data[id] : id \in DOMAIN data}
RemoteUsers ==
    {IF impl = "remote"
     THEN Remote_mapAirtableRecord([ID |-> id, Fields |-> remote[id]])
     ELSE mapAirtableRecord([ID |-> id, Fields |-> remote[id]]) : id \in DOMAIN remote}

\* C1: in every reachable state no two accounts stored in the same layer have
\* emails that are equal under case-insensitive comparison.
C1_OneAccountPerNormalizedEmail ==
    \A layer \in {MirrorUsers, RemoteUsers} :
       \A u, v \in layer :
          u.ID # v.ID => ToLower(u.Email) # ToLower(v.Email)

\* C2: when two register calls with the same normalized email have both
\* answered (neither with 400 or 500), exactly one answered 201 and the other
\* 409, and no layer holds two accounts with that normalized email.
C2_ConcurrentRegisterOneWinner ==
    (/\ pc[1] = "done" /\ pc[2] = "done"
     /\ ToLower(loc[1].email) = ToLower(loc[2].email)
     /\ loc[1].resp.code \in {201, 409} /\ loc[2].resp.code \in {201, 409})
    => /\ {loc[1].resp.code, loc[2].resp.code} = {201, 409}
       /\ C1_OneAccountPerNormalizedEmail

\* C3: after a successful register, getByEmail of that email returns an
\* account with status pending and a non-empty verification token, and a
\* login with the registered credentials fails with 403.
C3_RegisterLeavesPending ==
    (resp.op = "register" /\ resp.code = 201)
    => \A g \in Repo_GetByEmail(Store, resp.arg, TRUE) :
          /\ g.ok
          /\ g.user.Status = StatusPending
          /\ g.user.EmailVerificationToken # ""
          /\ LoginOutcome(resp.arg, "secret1", g).code = 403

\* C4: a successful register returns the account view and no bearer token.
C4_RegisterIssuesNoToken ==
    (resp.op = "register" /\ resp.code = 201)
    => /\ resp.user.Email = resp.arg
       /\ resp.token = NoToken

\* C5: after verifyEmail(T) succeeds for an account (T its non-empty
\* verification token), every layer that holds the account stores it active
\* with an empty verification token, and getByVerificationToken(T) finds no
\* account (so a second verifyEmail(T) answers 404).
C5_VerifyActivatesEveryLayer ==
    (resp.op = "verifyEmail" /\ resp.code = 200 /\ resp.arg # "")
    => /\ \A u \in MirrorUsers \cup RemoteUsers :
             u.Email = resp.user.Email
             => u.Status = StatusActive /\ u.EmailVerificationToken = ""
       /\ \A up \in Up :
             \A g \in Repo_GetByVerificationToken(Store, resp.arg, up) : ~g.ok

\* C6: a login with the correct credentials that follows a successful
\* verifyEmail of the same account answers 200 with a bearer token whose
\* email and role are the account's.
C6_VerifyThenLogin ==
    [][(/\ resp.op = "verifyEmail" /\ resp.code = 200
        /\ resp'.op = "login"
        /\ resp'.body.Email = resp.user.Email
        /\ resp'.body.Password = "secret1")
       => /\ resp'.code = 200
          /\ resp'.token.email = resp.user.Email
          /\ resp'.token.role = resp.user.Role]_vars

\* C7: every stored account with status pending has a non-empty verification
\* token, and every stored account with status active has an empty one.
C7_StatusTokenInvariant ==
    \A u \in MirrorUsers \cup RemoteUsers :
       /\ u.Status = StatusPending => u.EmailVerificationToken # ""
       /\ u.Status = StatusActive => u.EmailVerificationToken = ""

\* C8: the id a successful create returns belongs to no account of another
\* email, and is the id under which each layer that holds the new account
\* holds it, so getByID, update and delete with that id address the created
\* account.
C8_CreateReturnsTheStoredID ==
    (resp.op = "create" /\ resp.code = 200)
    => /\ resp.user.ID # ""
       /\ \A u \in MirrorUsers \cup RemoteUsers :
             u.ID = resp.user.ID => u.Email = resp.arg
       /\ \A layer \in {MirrorUsers, RemoteUsers} :
             (\E u \in layer : u.Email = resp.arg)
             => \E u \in layer : u.ID = resp.user.ID /\ u.Email = resp.arg
       /\ Repo_Get(Store, resp.user.ID, TRUE).ok
       /\ Repo_Get(Store, resp.user.ID, TRUE).user.Email = resp.arg
       /\ Repo_Update(Store, resp.user.ID, NoUser, TRUE, TRUE).err = ""
       /\ Repo_Delete(Store, resp.user.ID, TRUE).ok

\* What a successful update(id, partial) must keep of a stored account.
Kept(old, new, partial) ==
    /\ new.Email = old.Email
    /\ partial.Password = "" => new.Password = old.Password
    /\ partial.Role = "" => new.Role = old.Role
    /\ partial.Status = "" => new.Status = old.Status

\* C9: a successful update(id, partial) keeps the stored credential hash,
\* role and status wherever partial leaves the field empty, and keeps the
\* stored email whatever partial carries, in each layer that holds the id.
C9_UpdateKeepsUnsuppliedFields ==
    [][(resp'.op = "update" /\ resp'.code = 200)
       => /\ resp'.arg \in DOMAIN data
             => Kept(data[resp'.arg], data'[resp'.arg], resp'.body)
          /\ resp'.arg \in DOMAIN remote
             => Kept(mapAirtableRecord([ID |-> "", Fields |-> remote[resp'.arg]]),
                     mapAirtableRecord([ID |-> "", Fields |-> remote'[resp'.arg]]),
                     resp'.body)]_vars

\* The result the in-memory mirror gives for the read that produced resp.
MirrorAnswers ==
    CASE resp.op = "list" -> resp.users = InMemoryRepository_List(Store)
      [] resp.op = "get" ->
           [user |-> resp.user, ok |-> resp.code = 200]
              = InMemoryRepository_Get(Store, resp.arg)
      [] resp.op = "getByEmail" ->
           [user |-> resp.user, ok |-> resp.code = 200]
              \in InMemoryRepository_GetByEmail(Store, TrimSpace(resp.arg))
      [] resp.op = "getByVerificationToken" ->
           [user |-> resp.user, ok |-> resp.code = 200]
              \in InMemoryRepository_GetByVerificationToken(Store, TrimSpace(resp.arg))

\* C10: on a remote-backed store that holds an account, a list, getByID,
\* getByEmail or getByVerificationToken whose remote read failed returns what
\* the local mirror gives for the call.
C10_FailedReadFallsBackToMirror ==
    (/\ resp.op \in {"list", "get", "getByEmail", "getByVerificationToken"}
     /\ impl # "mem"
     /\ resp.failed
     /\ DOMAIN data \cup DOMAIN remote # {})
    => resp.from = "mirror" /\ MirrorAnswers

\* The fields a caller of update supplied are the ones stored.
Applied(new, partial) ==
    /\ partial.Password # "" => new.Password = partial.Password
    /\ partial.Role # "" => new.Role = partial.Role
    /\ partial.Status # "" => new.Status = partial.Status

\* C11: on the mirrored remote-backed repository, a create or update whose
\* mirror write succeeded and whose remote write then failed answers success
\* with the account the mirror wrote, the mirror keeps that account, and the
\* remote table is left as it was.
C11_RemoteWriteFailureKeepsLocalWrite ==
    [][(impl = "mirror" /\ resp'.op \in {"create", "update"} /\ resp'.failed)
       => /\ resp'.code = 200
          /\ resp'.user.ID \in DOMAIN data'
          /\ data'[resp'.user.ID] = resp'.user
          /\ remote' = remote
          /\ resp'.op = "create"
                => /\ resp'.user.ID \notin DOMAIN data
                   /\ resp'.user = [resp'.body EXCEPT !.ID = resp'.user.ID]
          /\ resp'.op = "update"
                => /\ resp'.user.ID = resp'.arg
                   /\ Applied(resp'.user, resp'.body)]_vars

\* C11 witness: an update that changed password and role on the mirror
\* answered success although its remote write failed, after a create whose
\* remote write had failed as well (the remote table is empty).
C11_Witness ==
    /\ impl = "mirror"
    /\ resp.op = "update" /\ resp.failed /\ resp.code = 200
    /\ resp.body.Role = RoleAdmin
    /\ resp.arg \in DOMAIN data /\ data[resp.arg].Role = RoleAdmin
    /\ remote = <<>>

\* C12: a verifyEmail whose token, the empty one included, is the
\* verification token of no pending account in any layer answers 404 and
\* leaves every stored account as it was.
C12_UnknownTokenNotFound ==
    [][(/\ resp'.op = "verifyEmail"
        /\ \A u \in MirrorUsers \cup RemoteUsers :
              ~(u.Status = StatusPending /\ u.EmailVerificationToken = resp'.arg))
       => /\ resp'.code = 404
          /\ data' = data
          /\ remote' = remote]_vars

\* C13: a step of register, verifyEmail or login leaves every account that is
\* stored active, in the mirror or in the remote table, stored and active.
C13_ActiveIsTerminal ==
    [][resp'.op \in {"register", "verifyEmail", "login"}
       => /\ \A id \in DOMAIN data :
                data[id].Status = StatusActive
                => id \in DOMAIN data' /\ data'[id].Status = StatusActive
          /\ \A id \in DOMAIN remote :
                getStringField(remote[id], FieldStatus) = StatusActive
                => /\ id \in DOMAIN remote'
                   /\ getStringField(remote'[id], FieldStatus) = StatusActive]_vars

\* C13 witness: a verifyEmail has just succeeded while another account was
\* already active, and both are active.
C13_Witness ==
    /\ resp.op = "verifyEmail" /\ resp.code = 200
    /\ \E u, v \in MirrorUsers :
          /\ u.ID # v.ID
          /\ u.Status = StatusActive /\ v.Status = StatusActive
          /\ v.Email = resp.user.Email

\* C14: after a successful POST /users every layer that holds the new account
\* stores it active with no verification token, and a login with its
\* credentials answers 200.
C14_AdminCreatedIsActive ==
    (resp.op = "createUser" /\ resp.code = 201)
    => /\ \A u \in MirrorUsers \cup RemoteUsers :
             u.Email = resp.arg
             => u.Status = StatusActive /\ u.EmailVerificationToken = ""
       /\ \A g \in Repo_GetByEmail(Store, resp.arg, TRUE) :
             LoginOutcome(resp.arg, "secret1", g).code = 200

\* The accounts stored, in the mirror or remotely, under the id a response
\* carries.
StoredAs(id, mirror, table) == {u \in mirror \cup table : u.ID = id}

\* C15: after every step each stored account's role is Super Admin, Admin or
\* User; a successful register stores role User; a successful POST /users
\* without a role stores role User; a POST /users with any other role answers
\* 400 and stores nothing.
C15_RolesAreFromTheEnumeration ==
    [][/\ \A u \in MirrorUsers' \cup RemoteUsers' :
             u.Role \in {RoleSuperAdmin, RoleAdmin, RoleUser}
       /\ (resp'.op = "register" /\ resp'.code = 201)
             => /\ StoredAs(resp'.user.ID, MirrorUsers', RemoteUsers') # {}
                /\ \A u \in StoredAs(resp'.user.ID, MirrorUsers', RemoteUsers') :
                      u.Role = RoleUser
       /\ (resp'.op = "createUser" /\ resp'.code = 201 /\ resp'.body.Role = "")
             => /\ StoredAs(resp'.user.ID, MirrorUsers', RemoteUsers') # {}
                /\ \A u \in StoredAs(resp'.user.ID, MirrorUsers', RemoteUsers') :
                      u.Role = RoleUser
       /\ (/\ resp'.op = "createUser"
           /\ resp'.body.Role \notin {"", RoleSuperAdmin, RoleAdmin, RoleUser})
             => resp'.code = 400 /\ data' = data /\ remote' = remote]_vars

\* C15 witness: a POST /users carrying the role "Guest" has been answered 400
\* on a store that holds an Admin created by an earlier POST /users.
C15_Witness ==
    /\ resp.op = "createUser" /\ resp.code = 400
    /\ resp.body.Role = "Guest"
    /\ \E u \in MirrorUsers \cup RemoteUsers : u.Role = RoleAdmin

\* C16: a getByEmail(e) that consulted a layer of the store returns an
\* account whose email equals e ignoring letter case, and reports absent only
\* when no layer holds such an account.
C16_GetByEmailIgnoresCase ==
    (resp.op = "getByEmail" /\ resp.arg \in Emails /\ resp.from # "none")
    => /\ resp.code = 200 => ToLower(resp.user.Email) = ToLower(resp.arg)
       /\ resp.code = 404
             => \A u \in MirrorUsers \cup RemoteUsers :
                   ToLower(u.Email) # ToLower(resp.arg)

\* The identity the authentication gate puts into the context for a token.
IdentityOf(token) ==
    [k \in {"user_id", "user_email", "user_role"} |->
        CASE k = "user_id" -> String(token.sub)
          [] k = "user_email" -> String(token.email)
          [] k = "user_role" -> String(token.role)]

\* C17: the authentication gate passes a request on exactly when it carries a
\* bearer token signed with the server's key and not yet expired, and then
\* the context holds exactly the token's id, email and role; a missing header
\* is answered 401 "Authorization header required", an invalid or expired
\* token 401 "Invalid or expired token", both with an empty context; and no
\* handler behind the gate runs for a request the gate did not pass.
C17_AuthenticationGate ==
    [][/\ ctx.stage = "auth"
          => LET valid == /\ ctx.header.present
                          /\ ctx.header.token.key = jwtSecret
                          /\ ctx.now < ctx.header.token.exp
             IN /\ valid => /\ ctx'.stage \in {"role", "handler"}
                            /\ ctx'.keys = IdentityOf(ctx.header.token)
                            /\ ctx'.code = 0
                /\ ~ctx.header.present
                      => ctx'.code = 401 /\ ctx'.error = "Authorization header required"
                /\ (ctx.header.present /\ ~valid)
                      => ctx'.code = 401 /\ ctx'.error = "Invalid or expired token"
                /\ ~valid => /\ ctx'.stage = "done"
                             /\ ctx'.keys = <<>>
                             /\ ~ctx'.ran
       /\ (ctx'.ran /\ ctx'.route.auth)
          => /\ ctx'.header.present
             /\ ctx'.header.token.key = jwtSecret
             /\ ctx'.now < ctx'.header.token.exp
             /\ ctx'.keys = IdentityOf(ctx'.header.token)]_vars

\* C17 witness: a handler has run behind the authentication gate and a role
\* gate, for a token that expires after the time of the request.
C17_Witness ==
    /\ ctx.ran /\ ctx.route.auth /\ ctx.route.gate = "RequireRole"
    /\ ctx.header.token.exp = ctx.now + 1
    /\ ctx.keys = IdentityOf(ctx.header.token)

\* C18: the role gate passes a request on exactly when the role in its
\* context is in the accepted set, and otherwise answers 403 listing the
\* accepted roles: a gate for {Admin} rejects User and rejects Super Admin;
\* the role check of ToggleLocationStatus accepts exactly Admin and Super
\* Admin, the two roles it names.
C18_RoleGateIsMembership ==
    [][/\ (ctx.stage = "role" /\ "user_role" \in DOMAIN ctx.keys)
          => LET role == ctx.keys["user_role"].val
             IN /\ role \in ctx.route.accepted
                      => ctx'.stage = "handler" /\ ctx'.code = 0
                /\ role \notin ctx.route.accepted
                      => /\ ctx'.stage = "done" /\ ctx'.code = 403 /\ ~ctx'.ran
                         /\ ctx'.error = "Insufficient permissions. Required roles"
                         /\ ctx'.listed = ctx.route.accepted
                /\ (ctx.route.accepted = {RoleAdmin}
                       /\ role \in {RoleUser, RoleSuperAdmin})
                      => ctx'.code = 403 /\ ctx'.listed = {RoleAdmin}
       /\ (/\ ctx.stage = "handler"
           /\ ctx.route.handler = "ToggleLocationStatus"
           /\ "user_role" \in DOMAIN ctx.keys)
          => (ctx'.ran <=> ctx.keys["user_role"].val \in {RoleAdmin, RoleSuperAdmin})
       /\ (ctx'.ran /\ ctx'.route.gate # "" /\ "user_role" \in DOMAIN ctx'.keys)
          => ctx'.keys["user_role"].val \in ctx'.route.accepted]_vars

\* C18 witness: a gate for {Admin} has answered 403, listing Admin, to an
\* authenticated Super Admin.
C18_Witness ==
    /\ ctx.stage = "done" /\ ctx.code = 403
    /\ ctx.route.gate = "RequireRole" /\ ctx.route.accepted = {RoleAdmin}
    /\ ctx.listed = {RoleAdmin}
    /\ "user_role" \in DOMAIN ctx.keys
    /\ ctx.keys["user_role"].val = RoleSuperAdmin

\* C19: a role check, in the role gate or at the head of
\* ToggleLocationStatus, that finds no role in the context answers 401, does
\* not panic, and the handler body does not run.
C19_RoleCheckFailsClosed ==
    [][(/\ "user_role" \notin DOMAIN ctx.keys
        /\ \/ ctx.stage = "role"
           \/ ctx.stage = "handler" /\ ctx.route.handler = "ToggleLocationStatus")
       => /\ ctx'.stage = "done"
          /\ ctx'.code = 401
          /\ ~ctx'.ran
          /\ ~ctx'.panicked]_vars

\* C19 witness: ToggleLocationStatus on a route without the authentication
\* gate has answered 401 to a request that carried a valid token.
C19_Witness ==
    /\ ctx.stage = "done" /\ ctx.code = 401
    /\ ~ctx.route.auth /\ ctx.route.handler = "ToggleLocationStatus"
    /\ ctx.error = "User role not found"
    /\ ctx.header.present /\ ValidateToken(ctx.header.token, ctx.now)

\* C20: the any-role gate passes on every request whose context holds a role,
\* whatever the role, Super Admin included, and no request whose context
\* holds none.
C20_AnyRoleGateExcludesNothing ==
    [][(ctx.stage = "role" /\ ctx.route.gate = "RequireAnyRole")
       => /\ "user_role" \in DOMAIN ctx.keys
                => ctx'.stage = "handler" /\ ctx'.code = 0
          /\ "user_role" \notin DOMAIN ctx.keys
                => ctx'.stage = "done" /\ ctx'.code = 401 /\ ~ctx'.ran]_vars

\* C21: verification of a token issued at time iat with lifetime ttl fails
\* with "Invalid or expired token" at every time at or after iat + ttl, so a
\* token issued with lifetime 0 is never accepted; it succeeds, yielding
\* exactly the claims the token was issued with, when the token carries the
\* server's signature and the time is before iat + ttl.
C21_VerifyHonoursExpiry ==
    [][(/\ ctx.stage = "auth" /\ ctx' # ctx
        /\ bearer.issued
        /\ ctx.header.present
        /\ Claims(ctx.header.token) = bearer.claims
        /\ ctx.header.token.exp = bearer.token.exp)
       => /\ ctx.now >= bearer.iat + bearer.ttl
             => /\ ctx'.stage = "done"
                /\ ctx'.code = 401
                /\ ctx'.error = "Invalid or expired token"
          /\ bearer.ttl = 0 => ctx'.code = 401
          /\ (ctx.header.token.key = jwtSecret /\ ctx.now < bearer.iat + bearer.ttl)
             => /\ ctx'.stage \in {"role", "handler"}
                /\ ctx'.code = 0
                /\ ctx'.keys = IdentityOf(bearer.claims)]_vars

\* C21 witness: a token issued with a positive lifetime was accepted one tick
\* before its expiry, after it had been issued at a later time than 0.
C21_Witness ==
    /\ bearer.issued /\ bearer.iat > 0 /\ bearer.ttl > 0
    /\ ctx.ran
    /\ ctx.header.token = bearer.token
    /\ ctx.now + 1 = bearer.iat + bearer.ttl
    /\ ctx.keys = IdentityOf(bearer.claims)

\* The account a token was issued to, as the store holds it now.
AccountOf(b) == {data[id] : id \in {b.claims.sub} \cap DOMAIN data}

\* C22: a bearer token issued to an account passes the authentication gate,
\* with the id, email and role it was issued with, at every time before its
\* expiry, whatever has happened to the account since: role or status
\* changed, or the account deleted.
C22_NoRevocation ==
    [][(/\ ctx.stage = "auth" /\ ctx' # ctx
        /\ bearer.issued
        /\ ctx.header.present
        /\ ctx.header.token = bearer.token
        /\ ctx.now < bearer.token.exp)
       => /\ ctx'.stage \in {"role", "handler"}
          /\ ctx'.code = 0
          /\ ctx'.keys = IdentityOf(bearer.claims)]_vars

\* C22 witness: a handler behind the gate for Admin ran for the token of an
\* account that had been deleted by then.
C22_Witness ==
    /\ bearer.issued
    /\ AccountOf(bearer) = {}
    /\ ctx.ran /\ ctx.route.gate = "RequireRole"
    /\ ctx.header.token = bearer.token
    /\ ctx.keys = IdentityOf(bearer.claims)
    /\ ctx.now > bearer.iat

\* What a login request is answered with when it is refused as Unauthorized:
\* the status and nothing of any account.
Unauthorized(request) ==
    [NoResp EXCEPT !.op = "login", !.arg = request.Email, !.code = 401,
                   !.body = request]

\* C23: a login with an email no account has, and a login with the email of
\* an account and a password that is not the account's, are answered with
\* the same Unauthorized response: nothing in the response depends on
\* whether the email has an account.
C23_FailedLoginIsUniform ==
    [][resp'.op = "login"
       => LET accounts == {u \in MirrorUsers \cup RemoteUsers :
                              ToLower(u.Email) = ToLower(resp'.arg)}
              absent == accounts = {}
              mismatch == /\ accounts # {}
                          /\ \A u \in accounts :
                                ~CheckPassword(u.Password, resp'.body.Password)
          IN (absent \/ mismatch) => resp' = Unauthorized(resp'.body)]_vars

\* C23 witness: a login with the email of a stored, active account and a
\* wrong password was answered 401.
C23_Witness ==
    /\ resp.op = "login" /\ resp.code = 401
    /\ \E u \in MirrorUsers \cup RemoteUsers :
          /\ u.Email = resp.arg
          /\ u.Status # StatusPending
          /\ ~CheckPassword(u.Password, resp.body.Password)

\* The goroutines inside the critical section of a write, and of a read.
Writing ==
    {w \in Workers : pc[w] \in {"in", "assigned", "out"} /\ MethodOf(w) \in WriteMethods}
Reading ==
    {w \in Workers : pc[w] \in {"in", "out"} /\ MethodOf(w) \in ReadMethods}

\* C24: on the in-memory repository, in every interleaving of concurrent
\* calls, at most one of Create, Update, Delete is inside its critical
\* section at a time, and no List, Get, GetByEmail or
\* GetByVerificationToken is inside while a write is; so no read returns
\* what it read while a write was partially applied.
C24_WritesAreExclusive ==
    /\ Cardinality(Writing) <= 1
    /\ Writing # {} => Reading = {}
    /\ \A w \in Workers :
          (pc[w] = "out" /\ MethodOf(w) \in ReadMethods) => ~loc[w].resp.failed
    /\ (resp.op \in ReadMethods) => ~resp.failed

\* C24 witness: two reads are inside at the same time, on a map a Create has
\* written to, one of them having read already.
C24_Witness ==
    /\ Cardinality(Reading) = 2
    /\ data # <<>>
    /\ \E w \in Workers : pc[w] = "out" /\ loc[w].resp.code = 200

\* The users in the body of a response, as serialized.
WireUsers(r) ==
    {MarshalUser(r.user)} \cup {MarshalUser(r.users[k]) : k \in DOMAIN r.users}

\* C25: no response of register, login, createUser, GET /users or
\* verifyEmail carries a non-empty password hash or a non-empty verification
\* token of any account.
C25_ResponsesCarryNoSecrets ==
    resp.op \in {"register", "login", "createUser", "listUsers", "verifyEmail"}
       => \A u \in WireUsers(resp) :
             u.Password = "" /\ u.EmailVerificationToken = ""

\* C25 witness: GET /users returned an account that is stored with a
\* password hash and a verification token.
C25_Witness ==
    /\ resp.op = "listUsers" /\ resp.code = 200
    /\ \E k \in DOMAIN resp.users :
          /\ resp.users[k].EmailVerificationToken # ""
          /\ \E u \in MirrorUsers \cup RemoteUsers :
                /\ u.Email = resp.users[k].Email
                /\ u.Password # ""
                /\ u.EmailVerificationToken = resp.users[k].EmailVerificationToken

\* C26: DELETE /users/{id} answers 200 exactly when the store holds an
\* account with that id (Get returns it) at the time of the call, and 404
\* otherwise; and a 404 leaves every layer of the store as it was.
C26_DeleteAnswersByExistence ==
    [][(resp'.op = "deleteUser" /\ resp'.arg # "")
       => /\ resp'.code \in {200, 404}
          /\ resp'.code = 200 <=> Repo_Get(Store, resp'.arg, TRUE).ok
          /\ resp'.code = 404 => Store' = Store]_vars

\* Whether two users carry the same account data (the verification token is
\* never written to Airtable, and the two layers use different ids).
SameData(u, v) ==
    /\ u.Email = v.Email
    /\ u.Password = v.Password
    /\ u.Role = v.Role
    /\ u.Status = v.Status

\* The remote table holds the data the mirror holds for account id.
InSync(id) == id \in DOMAIN data => \E r \in RemoteUsers : SameData(r, data[id])

\* The last call was a read that Airtable answered.
Quiet == resp.op \in {"get", "getByEmail", "list"} /\ ~resp.failed

\* The last call was a write, or a call whose remote read failed.
Disturbed == resp.op \in {"create", "update"} \/ resp.failed

\* C27: once a remote write has failed after the write to the mirror
\* succeeded, so that the remote table lacks what the mirror holds for the
\* account, and from then on Airtable answers every call and no write is
\* made, the remote table eventually holds the same data for the account as
\* the mirror.
C27_RemoteCatchesUp ==
    \A id \in {"1", "2"} :
       (id \in DOMAIN data /\ ~InSync(id) /\ Quiet) ~> (InSync(id) \/ Disturbed)

\* C28: every call of the mirrored repository eventually returns to its
\* caller, even if Airtable never answers: the remote call is abandoned when
\* the context of the request is done, and the mirror's result is returned.
C28_CallsReturn == (call.stage = "waiting") ~> (call.stage = "returned")

\* The account stored under id, as the repository in use keys it.
Stored(id) ==
    IF impl = "remote"
    THEN {u \in RemoteUsers : u.ID = id}
    ELSE {data[i] : i \in {id} \cap DOMAIN data}

\* Whether user u is account `gone`: the same id, or, in the mirrored
\* repository, the record that the Create of that account wrote to Airtable.
SameAccount(u, gone) == u.ID = gone.ID \/ (impl = "mirror" /\ u.Email = gone.Email)

\* C29: once Delete(id) has returned true, neither Get(id) nor List returns
\* the deleted account, with every repository and whether or not the remote
\* delete succeeded.
C29_DeletedStaysDeleted ==
    [][(resp'.op = "delete" /\ resp'.code = 200)
       => \A gone \in Stored(resp'.arg), up \in Up :
             /\ ~Repo_Get(Store', resp'.arg, up).ok
             /\ \A k \in DOMAIN Repo_List(Store', up).users :
                   ~SameAccount(Repo_List(Store', up).users[k], gone)]_vars

\* The records of the Airtable table whose email is `email` up to
\* surrounding blanks and letter case, as users.
RemoteByEmail(email) ==
    {u \in RemoteUsers : ToLower(u.Email) = ToLower(TrimSpace(email))}

\* C30: on the mirrored repository reads prefer Airtable: when the remote
\* read succeeds with a record, Get and GetByEmail return that record,
\* whatever the mirror holds for the account; List returns exactly the
\* records of the table, unless the table yields none, and then the mirror's
\* list.
C30_ReadsPreferRemote ==
    [][impl = "mirror"
       => /\ (resp'.op = "get" /\ ~resp'.failed /\ resp'.arg \in DOMAIN remote)
             => /\ resp'.code = 200
                /\ resp'.user = mapAirtableRecord([ID |-> resp'.arg,
                                                   Fields |-> remote[resp'.arg]])
          /\ (resp'.op = "getByEmail" /\ ~resp'.failed /\ RemoteByEmail(resp'.arg) # {})
             => /\ resp'.code = 200
                /\ resp'.user \in RemoteByEmail(resp'.arg)
          /\ (resp'.op = "list" /\ ~resp'.failed)
             => /\ Range(resp'.users) =
                      IF RemoteUsers # {} THEN RemoteUsers ELSE MirrorUsers
                /\ Len(resp'.users) = Cardinality(Range(resp'.users))]_vars

\* C30 witness: GetByEmail returned the Airtable record of an account for
\* which the mirror holds another role.
C30_Witness ==
    /\ impl = "mirror"
    /\ resp.op = "getByEmail" /\ resp.code = 200 /\ resp.from = "remote"
    /\ resp.user \in RemoteUsers
    /\ \E u \in MirrorUsers : u.Email = resp.user.Email /\ u.Role # resp.user.Role
====
